---------------------------- MODULE Spec2Model ----------------------------
(***************************************************************************)
(* Model of the two diagnostic programs of the repository:                 *)
(*   shm_rw.c            - the Region Mapper (file-backed pattern sweep)   *)
(*   shm_rw_fixed_addr.c - the Fixed-Address Mapper (/dev/mem, falling     *)
(*                         back to a file-offset simulation)               *)
(* A behaviour is a sequence of runs of one of the two programs over a     *)
(* file system and a physical memory that persist between the runs.        *)
(* uint64_t values are 4-tuples of 16-bit limbs, most significant first.   *)
(***************************************************************************)
EXTENDS Integers, Sequences, FiniteSets, TLC

\* ------------------------------------------------------------------ bounds
\* number of words another writer changes in the region file (all runs)
MaxRegionCorrupt == 2
\* number of words another writer changes in the fixed-address window (all runs)
MaxFixedCorrupt == 1
\* another writer touches the first and the last CorruptSpan words of a region
CorruptSpan == 2
\* number of successive runs of the program
MaxRuns == 2

\* ------------------------------------------------------- program constants
SHARE_SIZE == 1024
MAP_SIZE == 4096
WordBytes == 8
\* the sweep loop one turn short
SweepCount_short == 4 - 1
SweepCount == 4
PAGE_SIZE == 4096

\* --------------------------------------------------- 64-bit word arithmetic
RECURSIVE BitOr(_, _)
BitOr(a, b) ==
  IF a = 0 THEN b
  ELSE IF b = 0 THEN a
  ELSE (IF a % 2 = 1 \/ b % 2 = 1 THEN 1 ELSE 0) + 2 * BitOr(a \div 2, b \div 2)

RECURSIVE BitAnd(_, _)
BitAnd(a, b) ==
  IF a = 0 \/ b = 0 THEN 0
  ELSE (IF a % 2 = 1 /\ b % 2 = 1 THEN 1 ELSE 0) + 2 * BitAnd(a \div 2, b \div 2)

Or64(x, y) == << BitOr(x[1], y[1]), BitOr(x[2], y[2]), BitOr(x[3], y[3]), BitOr(x[4], y[4]) >>
And64(x, y) == << BitAnd(x[1], y[1]), BitAnd(x[2], y[2]), BitAnd(x[3], y[3]), BitAnd(x[4], y[4]) >>
Not64(x) == << 65535 - x[1], 65535 - x[2], 65535 - x[3], 65535 - x[4] >>

\* x - y modulo 2^64, limb by limb with borrow
Sub64(x, y) ==
  LET d4 == x[4] - y[4]
      b4 == IF d4 < 0 THEN 1 ELSE 0
      d3 == x[3] - y[3] - b4
      b3 == IF d3 < 0 THEN 1 ELSE 0
      d2 == x[2] - y[2] - b3
      b2 == IF d2 < 0 THEN 1 ELSE 0
      d1 == x[1] - y[1] - b2
  IN << d1 % 65536, d2 % 65536, d3 % 65536, d4 % 65536 >>

\* conversion of a size_t / non-negative int below 2^31 to uint64_t
U64(n) == << 0, 0, n \div 65536, n % 65536 >>
\* the value of a uint64_t below 2^31 as a number
Low(x) == x[3] * 65536 + x[4]

Zero64 == << 0, 0, 0, 0 >>
\* 0xDEADBEEF00000000ULL
TAG == << 57005, 48879, 0, 0 >>
\* 0xDEADBEEFCAFEBABEULL
TEST_VALUE == << 57005, 48879, 51966, 47806 >>
\* 0x80000000UL
FIXED_PHYS_ADDR == << 0, 0, 32768, 0 >>

\* the index truncated to 6 bits before it is or-ed in
Pattern_narrow(i) == Or64(TAG, U64(i % 64))
\* shm_rw.c line 71: the value stored at word i by the write sweep
Pattern(i) == Or64(TAG, U64(i))
\* shm_rw.c line 81: the value the verify sweep expects at word i
ExpectedAt(i) == Or64(TAG, U64(i))
\* the comparison done on the low 16 bits only
Mismatch_low16(v, i) == v[4] # ExpectedAt(i)[4]
\* shm_rw.c line 81: the mismatch test of the verify sweep
Mismatch(v, i) == v # ExpectedAt(i)
\* shm_rw_fixed_addr.c line 134: the value of the multi-location sweep
TestVal(i) == Or64(TAG, U64(i))

\* shm_rw_fixed_addr.c lines 39-40
AlignedAddr == And64(FIXED_PHYS_ADDR, Not64(Sub64(U64(PAGE_SIZE), U64(1))))
PageOffset == Low(Sub64(FIXED_PHYS_ADDR, AlignedAddr))

RegionWords == SHARE_SIZE \div WordBytes
\* Of the MAP_SIZE bytes of the fixed-address window the program reads and writes
\* the first SweepCount words only; the model keeps those words.
WindowWords == SweepCount

ZeroData(n) == [k \in 0 .. n - 1 |-> Zero64]
\* the unlink forgotten
Unlink_skipped(f) == f
\* unlink(2): the name is gone and so is the content
Unlink(f) == [exists |-> FALSE, data |-> [k \in DOMAIN f.data |-> Zero64]]
\* open(2) with O_CREAT and without O_TRUNC: an absent file is created empty
\* (it reads as zeros once ftruncate has sized it), a present one keeps its content
Creat(f) == [exists |-> TRUE, data |-> f.data]

\* ------------------------------------------------------------------- state
VARIABLES
  prog,            \* which program runs: "region" or "fixed"
  run,             \* number of the current run
  pc,              \* position of the current run in main
  fd,              \* main's fd: "none" (unset or -1), "region", "dev", "sim"
  openFds,         \* the handles the process holds open
  mem_ptr,         \* main's share / mem_ptr: "unset", "MAP_FAILED", "valid"
  map,             \* the mapping: [src, len, off]; src "none" when there is none
  regionFile,      \* /tmp/simbricks_shm_test: [exists, data]
  simFile,         \* /tmp/fixed_addr_mem: [exists, data of the mapped window]
  devMem,          \* physical memory at FIXED_PHYS_ADDR seen through /dev/mem
  i,               \* loop index of the sweep in progress
  ok,              \* shm_rw.c ok
  test_passed,     \* shm_rw_fixed_addr.c test_passed
  original_value,  \* shm_rw_fixed_addr.c original_value
  read_value,      \* shm_rw_fixed_addr.c read_value
  exitCode,        \* exit status of the run, -1 while it runs
  out,             \* lines printed by the run: sequence of [msg, arg]
  mismatch,        \* detail of the Mismatch line: [idx, expected, actual]
  obs              \* observations of the run and of the earlier runs

vars == << prog, run, pc, fd, openFds, mem_ptr, map, regionFile, simFile, devMem,
           i, ok, test_passed, original_value, read_value, exitCode, out, mismatch, obs >>

\* The observations record what the run did, for the properties to speak of:
\*   corrupts   writes by another writer so far (all runs)
\*   tamper     another writer wrote the mapping during this run
\*   nRead      number of verify-sweep reads done
\*   badSeen    indices whose verify-sweep read returned something else than
\*              0xDEADBEEF00000000 | index
\*   dirty      words written since the last fence
\*   prevOp     the last memory operation
\*   badRead    a read-back hit a word written since the last fence
\*   path       how the fixed-address run reached Mapped: "none", "dev", "sim"
\*   devFail    the device step that failed: "none", "open", "mmap"
\*   setupFail  the fatal setup step that failed: "none", "open", "ftruncate", "mmap"
\*   touched    the run read or wrote the mapping
\*   wrote      the run wrote the mapping
\*   written    sweep tags written by the test (-1: the single value, 0..3)
\*   readBack   sweep tags read back after having been written
\*   origFirst  original_value was read before the first write of the run
\*   before     content of the window when the run reached Mapped
\*   simAtStart /tmp/fixed_addr_mem when the run started
\*   opened     backing files the run opened or created
\*   prev       summary of the run that finished just before this one
NoMismatch == [idx |-> -1, expected |-> Zero64, actual |-> Zero64]
NoMap == [src |-> "none", len |-> 0, off |-> 0]
\* 0xDEADBEEF00000000 | k written out, for k below 65536
Want(k) == << 57005, 48879, 0, k >>

NoRun ==
  [ran |-> FALSE, exit |-> -1, path |-> "none", setupFail |-> "none", tamper |-> FALSE,
   mapped |-> FALSE, orig |-> Zero64, pass |-> FALSE, fileLeft |-> FALSE]

FreshObs(c, h, sim) ==
  [corrupts |-> c, tamper |-> FALSE,
   nRead |-> 0, badSeen |-> {},
   dirty |-> {}, prevOp |-> "none", badRead |-> FALSE,
   path |-> "none", devFail |-> "none", setupFail |-> "none", touched |-> FALSE,
   wrote |-> FALSE, written |-> {}, readBack |-> {}, origFirst |-> FALSE,
   before |-> ZeroData(WindowWords), simAtStart |-> sim, opened |-> {}, prev |-> h]

Say(lines) == out' = out \o lines
L(m) == [msg |-> m, arg |-> -1]
LA(m, a) == [msg |-> m, arg |-> a]

\* the content of the backing resource the mapping shows
Data == IF map.src = "region" THEN regionFile.data
        ELSE IF map.src = "sim" THEN simFile.data
        ELSE devMem

\* a store through the mapping (MAP_SHARED) reaches the backing resource
Store(d) ==
  /\ regionFile' = IF map.src = "region" THEN [regionFile EXCEPT !.data = d] ELSE regionFile
  /\ simFile' = IF map.src = "sim" THEN [simFile EXCEPT !.data = d] ELSE simFile
  /\ devMem' = IF map.src = "dev" THEN d ELSE devMem

\* ---------------------------------------------------------- initial states
\* leftovers an interrupted earlier run may have left in the simulation file
SimLeftovers ==
  { [k \in 0 .. WindowWords - 1 |-> IF k = 0 THEN TEST_VALUE ELSE Zero64] }
\* contents of the physical memory at the target address
DevContents ==
  { ZeroData(WindowWords),
    [k \in 0 .. WindowWords - 1 |-> << 4660, 22136, 0, k >>] }
RegionLeftovers ==
  { [k \in 0 .. RegionWords - 1 |-> Pattern(k)] }

Init ==
  /\ prog \in {"region", "fixed"}
  /\ run = 1
  /\ pc = IF prog = "region" THEN "r_open" ELSE "f_open_dev"
  /\ fd = "none"
  /\ openFds = {}
  /\ mem_ptr = "unset"
  /\ map = NoMap
  /\ regionFile \in
       IF prog = "region"
       THEN {[exists |-> FALSE, data |-> ZeroData(RegionWords)]}
              \cup {[exists |-> TRUE, data |-> d] : d \in RegionLeftovers}
       ELSE {[exists |-> FALSE, data |-> ZeroData(RegionWords)]}
  /\ simFile \in
       IF prog = "fixed"
       THEN {[exists |-> FALSE, data |-> ZeroData(WindowWords)]}
              \cup {[exists |-> TRUE, data |-> d] : d \in SimLeftovers}
       ELSE {[exists |-> FALSE, data |-> ZeroData(WindowWords)]}
  /\ devMem \in IF prog = "fixed" THEN DevContents ELSE {ZeroData(WindowWords)}
  /\ i = 0
  /\ ok = 1
  /\ test_passed = 1
  /\ original_value = Zero64
  /\ read_value = Zero64
  /\ exitCode = -1
  /\ out = << >>
  /\ mismatch = NoMismatch
  /\ obs = FreshObs(0, NoRun, simFile)

\* ------------------------------------------------------- the Region Mapper
\* shm_rw.c lines 27-35
R_Open ==
  /\ pc = "r_open"
  /\ \E succeeds \in BOOLEAN :
       IF succeeds
       THEN /\ regionFile' = Creat(regionFile)
            /\ fd' = "region"
            /\ openFds' = openFds \cup {"region"}
            /\ Say(<< L("Creating shared memory region") >>)
            /\ obs' = [obs EXCEPT !.opened = @ \cup {"region"}]
            /\ pc' = "r_ftruncate"
            /\ UNCHANGED exitCode
       ELSE /\ Say(<< L("Creating shared memory region"), L("perror: open failed"),
                      L("ERROR: Failed to create shared memory file") >>)
            /\ obs' = [obs EXCEPT !.setupFail = "open"]
            /\ exitCode' = 1
            /\ pc' = "done"
            /\ UNCHANGED << regionFile, fd, openFds >>
  /\ UNCHANGED << prog, run, mem_ptr, map, simFile, devMem, i, ok, test_passed,
                  original_value, read_value, mismatch >>

\* shm_rw.c lines 38-43
R_Ftruncate ==
  /\ pc = "r_ftruncate"
  /\ \E succeeds \in BOOLEAN :
       IF succeeds
       THEN /\ pc' = "r_mmap"
            /\ UNCHANGED << regionFile, fd, openFds, exitCode, out, obs >>
       ELSE /\ Say(<< L("perror: ftruncate failed") >>)
            /\ openFds' = openFds \ {fd}
            /\ regionFile' = Unlink(regionFile)
            /\ obs' = [obs EXCEPT !.setupFail = "ftruncate"]
            /\ exitCode' = 1
            /\ pc' = "done"
            /\ UNCHANGED fd
  /\ UNCHANGED << prog, run, mem_ptr, map, simFile, devMem, i, ok, test_passed,
                  original_value, read_value, mismatch >>

\* shm_rw.c lines 46-62
R_Mmap ==
  /\ pc = "r_mmap"
  /\ \E succeeds \in BOOLEAN :
       IF succeeds
       THEN /\ mem_ptr' = "valid"
            /\ map' = [src |-> "region", len |-> SHARE_SIZE, off |-> 0]
            /\ Say(<< L("Successfully mapped shared memory") >>)
            /\ pc' = "r_memset"
            /\ UNCHANGED << regionFile, openFds, exitCode, obs >>
       ELSE /\ mem_ptr' = "MAP_FAILED"
            /\ Say(<< L("perror: mmap failed") >>)
            /\ openFds' = openFds \ {fd}
            /\ regionFile' = Unlink(regionFile)
            /\ obs' = [obs EXCEPT !.setupFail = "mmap"]
            /\ exitCode' = 1
            /\ pc' = "done"
            /\ UNCHANGED map
  /\ UNCHANGED << prog, run, fd, simFile, devMem, i, ok, test_passed,
                  original_value, read_value, mismatch >>

\* shm_rw.c lines 65-69: memset of the whole region, then the sweep starts at 0
R_Memset ==
  /\ pc = "r_memset"
  /\ Store(ZeroData(RegionWords))
  /\ Say(<< L("Initializing memory with test pattern"), L("Writing test pattern") >>)
  /\ obs' = [obs EXCEPT !.dirty = 0 .. RegionWords - 1, !.prevOp = "memset",
                        !.touched = TRUE, !.wrote = TRUE]
  /\ i' = 0
  /\ pc' = "r_write"
  /\ UNCHANGED << prog, run, fd, openFds, mem_ptr, map, ok, test_passed,
                  original_value, read_value, exitCode, mismatch >>

\* shm_rw.c lines 70-72: one turn of the write sweep
R_Write ==
  /\ pc = "r_write"
  /\ IF i < SHARE_SIZE \div WordBytes
     THEN /\ Store([Data EXCEPT ![i] = Pattern(i)])
          /\ obs' = [obs EXCEPT !.dirty = @ \cup {i}, !.prevOp = "write",
                                !.written = @ \cup {i}]
          /\ i' = i + 1
          /\ pc' = "r_write"
     ELSE /\ pc' = "r_wfence"
          /\ UNCHANGED << regionFile, simFile, devMem, obs, i >>
  /\ UNCHANGED << prog, run, fd, openFds, mem_ptr, map, ok, test_passed,
                  original_value, read_value, exitCode, out, mismatch >>

\* where the fence at each fence position of shm_rw.c leads (lines 73 and 78)
R_FenceNext(p) == IF p = "r_wfence" THEN "r_rfence" ELSE "r_verify"

\* shm_rw.c line 73 (write_mem_fence) and lines 76-79 (ok = 1, read_mem_fence)
R_Fence ==
  /\ pc \in {"r_wfence", "r_rfence"}
  /\ obs' = [obs EXCEPT !.dirty = {}, !.prevOp = "fence"]
  /\ IF pc = "r_rfence"
     THEN /\ ok' = 1
          /\ i' = 0
          /\ Say(<< L("Reading back and verifying") >>)
     ELSE UNCHANGED << ok, i, out >>
  /\ pc' = R_FenceNext(pc)
  /\ UNCHANGED << prog, run, fd, openFds, mem_ptr, map, regionFile, simFile, devMem,
                  test_passed, original_value, read_value, exitCode, mismatch >>

\* shm_rw.c lines 79-87: one turn of the verify sweep
R_Verify ==
  /\ pc = "r_verify"
  /\ IF i < SHARE_SIZE \div WordBytes
     THEN LET v == Data[i] IN
          /\ obs' = [obs EXCEPT !.nRead = @ + 1, !.prevOp = "read",
                                !.badSeen = @ \cup (IF v # Want(i) THEN {i} ELSE {}),
                                !.badRead = @ \/ (i \in obs.dirty),
                                !.readBack = @ \cup ({i} \cap obs.written)]
          /\ IF Mismatch(v, i)
             THEN /\ Say(<< LA("Mismatch at index", i) >>)
                  /\ mismatch' = [idx |-> i, expected |-> ExpectedAt(i), actual |-> v]
                  /\ ok' = 0
                  /\ pc' = "r_report"
                  /\ UNCHANGED i
             ELSE /\ i' = i + 1
                  /\ pc' = "r_verify"
                  /\ UNCHANGED << out, mismatch, ok >>
     ELSE /\ pc' = "r_report"
          /\ UNCHANGED << obs, out, mismatch, ok, i >>
  /\ UNCHANGED << prog, run, fd, openFds, mem_ptr, map, regionFile, simFile, devMem,
                  test_passed, original_value, read_value, exitCode >>

\* shm_rw.c lines 90-94
R_Report ==
  /\ pc = "r_report"
  /\ IF ok # 0
     THEN Say(<< LA("PASS: all bytes match", SHARE_SIZE) >>)
     ELSE Say(<< L("FAIL: data mismatch") >>)
  /\ pc' = "r_cleanup"
  /\ UNCHANGED << prog, run, fd, openFds, mem_ptr, map, regionFile, simFile, devMem, i,
                  ok, test_passed, original_value, read_value, exitCode, mismatch, obs >>

\* shm_rw.c lines 97-101: munmap, close, unlink, return
R_Cleanup ==
  /\ pc = "r_cleanup"
  /\ map' = NoMap
  /\ openFds' = openFds \ {fd}
  /\ regionFile' = Unlink(regionFile)
  /\ exitCode' = IF ok # 0 THEN 0 ELSE 1
  /\ pc' = "done"
  /\ UNCHANGED << prog, run, fd, mem_ptr, simFile, devMem, i, ok, test_passed,
                  original_value, read_value, out, mismatch, obs >>

RegionNext ==
  \/ R_Open \/ R_Ftruncate \/ R_Mmap \/ R_Memset \/ R_Write
  \/ R_Fence \/ R_Verify \/ R_Report \/ R_Cleanup

\* -------------------------------------------------- the Fixed-Address Mapper
\* shm_rw_fixed_addr.c lines 27-37
F_OpenDev ==
  /\ pc = "f_open_dev"
  /\ \E succeeds \in BOOLEAN :
       IF succeeds
       THEN /\ fd' = "dev"
            /\ openFds' = openFds \cup {"dev"}
            /\ Say(<< L("Accessing fixed physical address"), L("/dev/mem opened successfully") >>)
            /\ pc' = "f_mmap_dev"
            /\ UNCHANGED obs
       ELSE /\ fd' = "none"
            /\ Say(<< L("Accessing fixed physical address"), L("/dev/mem not available") >>)
            /\ obs' = [obs EXCEPT !.devFail = "open"]
            /\ pc' = "f_fallback"
            /\ UNCHANGED openFds
  /\ UNCHANGED << prog, run, mem_ptr, map, regionFile, simFile, devMem, i, ok,
                  test_passed, original_value, read_value, exitCode, mismatch >>

\* shm_rw_fixed_addr.c lines 38-60
F_MmapDev ==
  /\ pc = "f_mmap_dev"
  /\ \E succeeds \in BOOLEAN :
       IF succeeds
       THEN /\ mem_ptr' = "valid"
            /\ map' = [src |-> "dev", len |-> MAP_SIZE + PageOffset, off |-> PageOffset]
            /\ Say(<< L("Successfully mapped /dev/mem") >>)
            /\ obs' = [obs EXCEPT !.path = "dev"]
            /\ UNCHANGED << fd, openFds >>
       ELSE /\ mem_ptr' = "MAP_FAILED"
            /\ Say(<< L("/dev/mem mmap failed, falling back") >>)
            /\ openFds' = openFds \ {fd}
            /\ fd' = "none"
            /\ obs' = [obs EXCEPT !.devFail = "mmap"]
            /\ UNCHANGED map
  /\ pc' = "f_fallback"
  /\ UNCHANGED << prog, run, regionFile, simFile, devMem, i, ok,
                  test_passed, original_value, read_value, exitCode, mismatch >>

\* shm_rw_fixed_addr.c lines 63-71
F_Fallback ==
  /\ pc = "f_fallback"
  /\ IF fd = "none"
     THEN \E succeeds \in BOOLEAN :
            IF succeeds
            THEN /\ simFile' = Creat(simFile)
                 /\ fd' = "sim"
                 /\ openFds' = openFds \cup {"sim"}
                 /\ Say(<< L("Using file-based approach") >>)
                 /\ obs' = [obs EXCEPT !.opened = @ \cup {"sim"}]
                 /\ pc' = "f_ftruncate"
                 /\ UNCHANGED exitCode
            ELSE /\ Say(<< L("Using file-based approach"),
                           L("perror: Failed to create temporary file") >>)
                 /\ obs' = [obs EXCEPT !.setupFail = "open"]
                 /\ exitCode' = 1
                 /\ pc' = "done"
                 /\ UNCHANGED << simFile, fd, openFds >>
     ELSE /\ pc' = "f_check"
          /\ UNCHANGED << simFile, fd, openFds, out, obs, exitCode >>
  /\ UNCHANGED << prog, run, mem_ptr, map, regionFile, devMem, i, ok,
                  test_passed, original_value, read_value, mismatch >>

\* the ftruncate failure path without its perror
F_Ftruncate_silent ==
  /\ pc = "f_ftruncate"
  /\ \E succeeds \in BOOLEAN :
       IF succeeds
       THEN /\ pc' = "f_mmap_sim"
            /\ UNCHANGED << simFile, openFds, exitCode, out, obs >>
       ELSE /\ openFds' = openFds \ {fd}
            /\ simFile' = Unlink(simFile)
            /\ obs' = [obs EXCEPT !.setupFail = "ftruncate"]
            /\ exitCode' = 1
            /\ pc' = "done"
            /\ UNCHANGED out
  /\ UNCHANGED << prog, run, fd, mem_ptr, map, regionFile, devMem, i, ok,
                  test_passed, original_value, read_value, mismatch >>

\* shm_rw_fixed_addr.c lines 73-79
F_Ftruncate ==
  /\ pc = "f_ftruncate"
  /\ \E succeeds \in BOOLEAN :
       IF succeeds
       THEN /\ pc' = "f_mmap_sim"
            /\ UNCHANGED << simFile, openFds, exitCode, out, obs >>
       ELSE /\ Say(<< L("perror: ftruncate failed") >>)
            /\ openFds' = openFds \ {fd}
            /\ simFile' = Unlink(simFile)
            /\ obs' = [obs EXCEPT !.setupFail = "ftruncate"]
            /\ exitCode' = 1
            /\ pc' = "done"
  /\ UNCHANGED << prog, run, fd, mem_ptr, map, regionFile, devMem, i, ok,
                  test_passed, original_value, read_value, mismatch >>

\* shm_rw_fixed_addr.c lines 81-89
F_MmapSim ==
  /\ pc = "f_mmap_sim"
  /\ \E succeeds \in BOOLEAN :
       IF succeeds
       THEN /\ mem_ptr' = "valid"
            /\ map' = [src |-> "sim", len |-> MAP_SIZE, off |-> 0]
            /\ obs' = [obs EXCEPT !.path = "sim"]
       ELSE /\ mem_ptr' = "MAP_FAILED"
            /\ UNCHANGED << map, obs >>
  /\ pc' = "f_check"
  /\ UNCHANGED << prog, run, fd, openFds, regionFile, simFile, devMem, i, ok,
                  test_passed, original_value, read_value, exitCode, out, mismatch >>

\* shm_rw_fixed_addr.c lines 92-105
F_Check ==
  /\ pc = "f_check"
  /\ IF mem_ptr = "MAP_FAILED"
     THEN /\ Say(<< L("perror: mmap failed") >>)
          /\ openFds' = openFds \ {fd}
          /\ simFile' = IF fd # "none" /\ simFile.exists THEN Unlink(simFile) ELSE simFile
          /\ obs' = [obs EXCEPT !.setupFail = "mmap"]
          /\ exitCode' = 1
          /\ pc' = "done"
     ELSE /\ Say(<< L("Successfully mapped address"), L("Running simple test") >>)
          /\ obs' = [obs EXCEPT !.before = Data]
          /\ pc' = "f_fence108"
          /\ UNCHANGED << openFds, simFile, exitCode >>
  /\ UNCHANGED << prog, run, fd, mem_ptr, map, regionFile, devMem, i, ok,
                  test_passed, original_value, read_value, mismatch >>

\* where the fence at each fence position of shm_rw_fixed_addr.c leads
\* (lines 108, 115, 117, 120, 136, 138, 158, 160)
F_FenceNext(p) ==
  CASE p = "f_fence108" -> "f_read_orig"
    [] p = "f_fence115" -> "f_write_test"
    [] p = "f_fence117" -> "f_fence120"
    [] p = "f_fence120" -> "f_read_back"
    [] p = "f_fence136" -> "f_fence138"
    [] p = "f_fence138" -> "f_sweep_read"
    [] p = "f_fence158" -> "f_restore"
    [] p = "f_fence160" -> "f_cleanup"

FencePcs == {"f_fence108", "f_fence115", "f_fence117", "f_fence120",
             "f_fence136", "f_fence138", "f_fence158", "f_fence160"}

\* the fences compiled to nothing
F_Fence_empty ==
  /\ pc \in FencePcs
  /\ pc' = F_FenceNext(pc)
  /\ UNCHANGED << prog, run, fd, openFds, mem_ptr, map, regionFile, simFile, devMem, i,
                  ok, test_passed, original_value, read_value, exitCode, out, mismatch,
                  obs >>

\* shm_rw_fixed_addr.c: write_mem_fence / read_mem_fence
F_Fence ==
  /\ pc \in FencePcs
  /\ obs' = [obs EXCEPT !.dirty = {}, !.prevOp = "fence"]
  /\ pc' = F_FenceNext(pc)
  /\ UNCHANGED << prog, run, fd, openFds, mem_ptr, map, regionFile, simFile, devMem, i,
                  ok, test_passed, original_value, read_value, exitCode, out, mismatch >>

\* shm_rw_fixed_addr.c lines 109-114
F_ReadOrig ==
  /\ pc = "f_read_orig"
  /\ original_value' = Data[0]
  /\ Say(<< L("Original value"), L("Writing test value") >>)
  /\ obs' = [obs EXCEPT !.prevOp = "read_orig", !.touched = TRUE,
                        !.origFirst = ~obs.wrote,
                        !.badRead = @ \/ (0 \in obs.dirty)]
  /\ pc' = "f_fence115"
  /\ UNCHANGED << prog, run, fd, openFds, mem_ptr, map, regionFile, simFile, devMem, i,
                  ok, test_passed, read_value, exitCode, mismatch >>

\* shm_rw_fixed_addr.c line 116
F_WriteTest ==
  /\ pc = "f_write_test"
  /\ Store([Data EXCEPT ![0] = TEST_VALUE])
  /\ obs' = [obs EXCEPT !.prevOp = "write_test", !.touched = TRUE, !.wrote = TRUE,
                        !.dirty = @ \cup {0}, !.written = @ \cup {-1}]
  /\ pc' = "f_fence117"
  /\ UNCHANGED << prog, run, fd, openFds, mem_ptr, map, i, ok, test_passed,
                  original_value, read_value, exitCode, out, mismatch >>

\* shm_rw_fixed_addr.c lines 121-132
F_ReadBack ==
  /\ pc = "f_read_back"
  /\ read_value' = Data[0]
  /\ Say(<< L("Read back value"),
            IF Data[0] = TEST_VALUE
            THEN L("PASS: Read back matches written value")
            ELSE L("FAIL: Read back does not match written value"),
            L("Testing multiple memory locations") >>)
  /\ obs' = [obs EXCEPT !.prevOp = "read_back",
                        !.badRead = @ \/ (0 \in obs.dirty),
                        !.readBack = @ \cup ({-1} \cap obs.written)]
  /\ test_passed' = 1
  /\ i' = 0
  /\ pc' = "f_sweep"
  /\ UNCHANGED << prog, run, fd, openFds, mem_ptr, map, regionFile, simFile, devMem,
                  ok, original_value, exitCode, mismatch >>

\* shm_rw_fixed_addr.c lines 133-135: loop test and the store of one turn
F_SweepWrite ==
  /\ pc = "f_sweep"
  /\ IF i < SweepCount
     THEN /\ Store([Data EXCEPT ![i] = TestVal(i)])
          /\ obs' = [obs EXCEPT !.prevOp = "sweep_write", !.wrote = TRUE,
                                !.dirty = @ \cup {i}, !.written = @ \cup {i}]
          /\ pc' = "f_fence136"
     ELSE /\ pc' = "f_sweep_report"
          /\ UNCHANGED << regionFile, simFile, devMem, obs >>
  /\ UNCHANGED << prog, run, fd, openFds, mem_ptr, map, i, ok, test_passed,
                  original_value, read_value, exitCode, out, mismatch >>

\* shm_rw_fixed_addr.c lines 139-148: the read-back of one turn
F_SweepRead ==
  /\ pc = "f_sweep_read"
  /\ LET read_val == Data[i] IN
       /\ IF read_val # TestVal(i)
          THEN /\ Say(<< LA("Location", i), LA("FAIL at offset", i) >>)
               /\ test_passed' = 0
          ELSE /\ Say(<< LA("Location", i) >>)
               /\ UNCHANGED test_passed
       /\ obs' = [obs EXCEPT !.prevOp = "sweep_read",
                             !.badRead = @ \/ (i \in obs.dirty),
                             !.readBack = @ \cup ({i} \cap obs.written)]
  /\ i' = i + 1
  /\ pc' = "f_sweep"
  /\ UNCHANGED << prog, run, fd, openFds, mem_ptr, map, regionFile, simFile, devMem,
                  ok, original_value, read_value, exitCode, mismatch >>

\* shm_rw_fixed_addr.c lines 150-157
F_SweepReport ==
  /\ pc = "f_sweep_report"
  /\ Say(<< IF test_passed # 0
            THEN L("PASS: All test locations match")
            ELSE L("FAIL: Some locations had mismatches"),
            L("Restoring original value") >>)
  /\ pc' = "f_fence158"
  /\ UNCHANGED << prog, run, fd, openFds, mem_ptr, map, regionFile, simFile, devMem, i,
                  ok, test_passed, original_value, read_value, exitCode, mismatch, obs >>

\* the value read back stored in place of the original
F_Restore_readback ==
  /\ pc = "f_restore"
  /\ Store([Data EXCEPT ![0] = read_value])
  /\ obs' = [obs EXCEPT !.prevOp = "restore", !.dirty = @ \cup {0}]
  /\ pc' = "f_fence160"
  /\ UNCHANGED << prog, run, fd, openFds, mem_ptr, map, i, ok, test_passed,
                  original_value, read_value, exitCode, out, mismatch >>

\* shm_rw_fixed_addr.c line 159
F_Restore ==
  /\ pc = "f_restore"
  /\ Store([Data EXCEPT ![0] = original_value])
  /\ obs' = [obs EXCEPT !.prevOp = "restore", !.dirty = @ \cup {0}]
  /\ pc' = "f_fence160"
  /\ UNCHANGED << prog, run, fd, openFds, mem_ptr, map, i, ok, test_passed,
                  original_value, read_value, exitCode, out, mismatch >>

\* munmap(mem_ptr, MAP_SIZE): the pages of [off, off + MAP_SIZE) leave the mapping
Munmap(m) ==
  IF m.off % PAGE_SIZE = 0 /\ m.off + MAP_SIZE >= m.len THEN NoMap ELSE m

\* shm_rw_fixed_addr.c line 170
ExitStatus(tp) == IF tp # 0 THEN 0 ELSE 1

\* shm_rw_fixed_addr.c lines 163-170: munmap, close, access/unlink, return
F_Cleanup ==
  /\ pc = "f_cleanup"
  /\ map' = Munmap(map)
  /\ openFds' = openFds \ {fd}
  /\ simFile' = IF simFile.exists THEN Unlink(simFile) ELSE simFile
  /\ Say(<< L("Test completed successfully") >>)
  /\ exitCode' = ExitStatus(test_passed)
  /\ pc' = "done"
  /\ UNCHANGED << prog, run, fd, mem_ptr, regionFile, devMem, i, ok, test_passed,
                  original_value, read_value, mismatch, obs >>

FixedNext ==
  \/ F_OpenDev \/ F_MmapDev \/ F_Fallback \/ F_Ftruncate \/ F_MmapSim \/ F_Check
  \/ F_Fence \/ F_ReadOrig \/ F_WriteTest \/ F_ReadBack \/ F_SweepWrite \/ F_SweepRead
  \/ F_SweepReport \/ F_Restore \/ F_Cleanup

\* ------------------------------------------------------------ environment
\* values another writer of the shared mapping stores
CorruptVals == { Zero64, Pattern(1) }
\* words another writer touches
CorruptIdx ==
  IF map.src = "region"
  THEN { k \in 0 .. RegionWords - 1 : k < CorruptSpan \/ k >= RegionWords - CorruptSpan }
  ELSE 0 .. WindowWords - 1

\* Another process or the device changes a word of the backing resource while
\* the program has it mapped: in the fixed-address window at any moment, in the
\* region file between the write sweep and the verify sweep.
Corrupt ==
  /\ map.src # "none"
  /\ map.src = "region" => pc \in {"r_wfence", "r_rfence"}
  /\ obs.corrupts < (IF prog = "region" THEN MaxRegionCorrupt ELSE MaxFixedCorrupt)
  /\ \E k \in CorruptIdx, v \in CorruptVals :
       /\ Data[k] # v
       /\ Store([Data EXCEPT ![k] = v])
  /\ obs' = [obs EXCEPT !.corrupts = @ + 1, !.tamper = TRUE]
  /\ UNCHANGED << prog, run, pc, fd, openFds, mem_ptr, map, i, ok, test_passed,
                  original_value, read_value, exitCode, out, mismatch >>

\* what a finished run leaves for the properties that span two runs
Summary ==
  [ran |-> TRUE, exit |-> exitCode, path |-> obs.path, setupFail |-> obs.setupFail,
   tamper |-> obs.tamper, mapped |-> obs.touched, orig |-> original_value,
   pass |-> (IF prog = "region" THEN ok # 0 ELSE test_passed # 0),
   fileLeft |-> (IF prog = "region" THEN regionFile.exists ELSE simFile.exists)]

\* the program is started again: a new process over the same file system and memory
Relaunch ==
  /\ pc = "done"
  /\ run < MaxRuns
  /\ run' = run + 1
  /\ pc' = IF prog = "region" THEN "r_open" ELSE "f_open_dev"
  /\ fd' = "none"
  /\ openFds' = {}
  /\ mem_ptr' = "unset"
  /\ map' = NoMap
  /\ i' = 0
  /\ ok' = 1
  /\ test_passed' = 1
  /\ original_value' = Zero64
  /\ read_value' = Zero64
  /\ exitCode' = -1
  /\ out' = << >>
  /\ mismatch' = NoMismatch
  /\ obs' = FreshObs(obs.corrupts, Summary, simFile)
  /\ UNCHANGED << prog, regionFile, simFile, devMem >>

Next == RegionNext \/ FixedNext \/ Corrupt \/ Relaunch

Spec == Init /\ [][Next]_vars

\* ------------------------------------------------------------- properties
Done == pc = "done"
Has(m) == \E k \in 1 .. Len(out) : out[k].msg = m
HasArg(m, a) == \E k \in 1 .. Len(out) : out[k].msg = m /\ out[k].arg = a
Count(m) == Cardinality({ k \in 1 .. Len(out) : out[k].msg = m })

SinglePass == "PASS: Read back matches written value"
SingleFail == "FAIL: Read back does not match written value"
SweepPass == "PASS: All test locations match"
SweepFail == "FAIL: Some locations had mismatches"

\* C1: the Fixed-Address Mapper exits 0 only if the single-value check and the
\* multi-location sweep both passed, and 1 in every other terminating run.
C1_ExitZeroOnlyIfBothPass ==
  (prog = "fixed" /\ Done) =>
    LET bothPass == /\ Has(SinglePass)
                    /\ read_value = TEST_VALUE
                    /\ Has(SweepPass)
                    /\ \A k \in 0 .. 3 : ~HasArg("FAIL at offset", k)
    IN /\ exitCode \in {0, 1}
       /\ exitCode = 0 => bothPass
       /\ ~bothPass => exitCode = 1

\* C2: the Region Mapper reports PASS and exits 0 exactly when every word 0..127
\* reads back as 0xDEADBEEF00000000 | index; otherwise it reports FAIL, exits 1,
\* and the one mismatch reported is the lowest differing index, after which no
\* further word is read.
C2_VerifyVerdict ==
  (prog = "region") =>
    /\ (Done /\ obs.setupFail = "none") =>
         LET allGood == obs.nRead = 128 /\ obs.badSeen = {}
         IN /\ allGood <=> (exitCode = 0 /\ Has("PASS: all bytes match"))
            /\ allGood => (mismatch = NoMismatch /\ ~Has("FAIL: data mismatch"))
            /\ ~allGood =>
                 /\ exitCode = 1
                 /\ Has("FAIL: data mismatch")
                 /\ ~Has("PASS: all bytes match")
                 /\ Count("Mismatch at index") = 1
                 /\ HasArg("Mismatch at index", mismatch.idx)
                 /\ obs.badSeen = {mismatch.idx}
                 /\ obs.nRead = mismatch.idx + 1
                 /\ mismatch.expected = Want(mismatch.idx)
                 /\ mismatch.actual # Want(mismatch.idx)
    /\ (pc = "r_cleanup") =>
         LET bad == { k \in 0 .. 127 : regionFile.data[k] # Want(k) }
         IN /\ (bad = {}) <=> (ok # 0)
            /\ (bad # {}) =>
                 /\ mismatch.idx \in bad
                 /\ \A k \in bad : mismatch.idx <= k
                 /\ mismatch.actual = regionFile.data[mismatch.idx]

C2_Witness ==
  /\ prog = "region"
  /\ pc = "r_cleanup"
  /\ ok = 0
  /\ regionFile.data[1] # Want(1)
  /\ regionFile.data[127] # Want(127)
  /\ mismatch.idx = 1

\* C3: with open, ftruncate and mmap successful and no other writer, every word
\* 0..127 holds 0xDEADBEEF00000000 | index after the write sweep (index 5 holds
\* 0xDEADBEEF00000005), distinct indices have distinct expected values, and the
\* run ends with the PASS line citing 1024 bytes and exit code 0.
C3_RoundTrip ==
  (prog = "region" /\ ~obs.tamper) =>
    /\ (pc \in {"r_wfence", "r_rfence", "r_verify", "r_report", "r_cleanup"}) =>
         /\ \A k \in 0 .. 127 : regionFile.data[k] = Want(k)
         /\ regionFile.data[5] = << 57005, 48879, 0, 5 >>
    /\ (pc = "r_wfence") =>
         /\ \A a, b \in 0 .. 127 : a # b => ExpectedAt(a) # ExpectedAt(b)
         /\ \A a, b \in 0 .. 127 : a # b => regionFile.data[a] # regionFile.data[b]
    /\ (Done /\ obs.setupFail = "none") =>
         /\ exitCode = 0
         /\ out[Len(out)] = [msg |-> "PASS: all bytes match", arg |-> 1024]

C3_Witness ==
  /\ prog = "region"
  /\ Done
  /\ ~obs.tamper
  /\ obs.setupFail = "none"
  /\ obs.nRead = 128
  /\ exitCode = 0

\* C4: whenever a run terminates, every handle it opened is closed, every mapping
\* it made is unmapped and the backing file it opened or created is gone; hence
\* two successive undisturbed runs of the Region Mapper both PASS and leave no file.
C4_ReleasedAtExit ==
  Done =>
    /\ openFds = {}
    /\ map.src = "none"
    /\ ("region" \in obs.opened) => ~regionFile.exists
    /\ ("sim" \in obs.opened) => ~simFile.exists
    /\ ( /\ prog = "region"
         /\ obs.prev.ran /\ obs.prev.setupFail = "none" /\ ~obs.prev.tamper
         /\ obs.setupFail = "none" /\ ~obs.tamper )
       => /\ obs.prev.exit = 0 /\ obs.prev.pass /\ ~obs.prev.fileLeft
          /\ exitCode = 0 /\ Has("PASS: all bytes match")
          /\ ~regionFile.exists

C4_Witness ==
  /\ prog = "region"
  /\ Done
  /\ run = 2
  /\ obs.prev.ran /\ obs.prev.exit = 0 /\ ~obs.prev.tamper
  /\ exitCode = 0 /\ ~obs.tamper
  /\ "region" \in obs.opened

\* a run that read its original value right after an undisturbed run that reached
\* Mapped by the same path
FreshMappingAfterRun ==
  /\ prog = "fixed"
  /\ obs.touched
  /\ ~obs.tamper
  /\ obs.prev.ran /\ obs.prev.mapped /\ ~obs.prev.tamper
  /\ obs.prev.path = obs.path

C6_AllWordsRestored ==
  (prog = "fixed" /\ pc = "f_cleanup" /\ ~obs.tamper) =>
    \A k \in 0 .. 3 : Data[k] = obs.before[k]

\* C7: a failed device open or device mapping leads to the simulation path with
\* the device handle closed; if the simulation file's open, ftruncate and mmap
\* succeed the run reaches Mapped and a PASS/FAIL verdict; and every PASS line
\* follows a write and a read-back of every location it covers.
C7_FallbackVerdict ==
  (prog = "fixed") =>
    /\ (pc = "f_fallback" /\ obs.devFail # "none") => (fd = "none" /\ "dev" \notin openFds)
    /\ (obs.devFail # "none" /\ pc \notin {"f_open_dev", "f_mmap_dev", "f_fallback"}) =>
         (Has("Using file-based approach") /\ "dev" \notin openFds /\ map.src # "dev")
    /\ (Done /\ obs.devFail # "none" /\ obs.setupFail = "none") =>
         /\ obs.path = "sim"
         /\ obs.touched
         /\ Has(SinglePass) \/ Has(SingleFail)
         /\ Has(SweepPass) \/ Has(SweepFail)
    /\ Has(SinglePass) => (-1 \in obs.written /\ -1 \in obs.readBack)
    /\ Has(SweepPass) => ({0, 1, 2, 3} \subseteq obs.written /\ {0, 1, 2, 3} \subseteq obs.readBack)

C7_Witness ==
  /\ prog = "fixed"
  /\ Done
  /\ obs.devFail = "mmap"
  /\ obs.path = "sim"
  /\ Has(SweepPass)
  /\ Has(SinglePass)

\* the diagnostic of each fatal setup step
SetupDiag ==
  CASE obs.setupFail = "open" ->
         IF prog = "region" THEN "perror: open failed"
         ELSE "perror: Failed to create temporary file"
    [] obs.setupFail = "ftruncate" -> "perror: ftruncate failed"
    [] obs.setupFail = "mmap" -> "perror: mmap failed"
    [] OTHER -> "none"

\* C8: a failure to open, ftruncate or mmap the backing file ends the run at once
\* with a non-zero status, after a diagnostic and without any read or write of
\* the mapping; a device open or mapping failure only leads to the fallback; no
\* failing exit is without a diagnostic.
C8_SetupFailure ==
  /\ (obs.setupFail # "none") =>
       /\ Done
       /\ exitCode = 1
       /\ Has(SetupDiag)
       /\ ~obs.touched /\ ~obs.wrote
       /\ obs.written = {} /\ obs.readBack = {}
  /\ (obs.devFail # "none" /\ ~Done) => exitCode = -1
  /\ (obs.devFail # "none" /\ Done /\ exitCode # 0) =>
       (obs.setupFail # "none" \/ (obs.path = "sim" /\ test_passed = 0))
  /\ (Done /\ exitCode # 0) =>
       \/ (obs.setupFail # "none" /\ Has(SetupDiag))
       \/ Has("FAIL: data mismatch")
       \/ Has(SweepFail)

C8_Witness ==
  /\ prog = "fixed"
  /\ Done
  /\ obs.devFail = "open"
  /\ obs.setupFail = "ftruncate"
  /\ exitCode = 1

\* C9: no verify read of the Region Mapper precedes the 128 pattern writes and
\* the fence after them; in the Fixed-Address Mapper a fence precedes the read of
\* the original value, fences surround the write of the test constant and the
\* restoring write, and a fence separates every read-back from the write before it.
C9_FenceOrdering ==
  /\ ~obs.badRead
  /\ (prog = "region" /\ obs.nRead > 0) => (0 .. 127) \subseteq obs.written
  /\ (prog = "region" /\ pc = "r_verify") => (obs.dirty = {} /\ obs.prevOp \in {"fence", "read"})
  /\ (pc \in {"f_read_orig", "f_write_test", "f_restore", "f_read_back", "f_sweep_read"}) =>
       obs.prevOp = "fence"
  /\ (obs.prevOp \in {"write_test", "restore", "sweep_write"}) => pc \in FencePcs

C9_Witness ==
  /\ prog = "fixed"
  /\ Done
  /\ obs.readBack = {-1, 0, 1, 2, 3}
  /\ obs.prevOp = "fence"

\* C10: a run that reaches Mapped through the device mapping leaves
\* /tmp/fixed_addr_mem as it found it.
C10_SimFileUntouchedOnDevicePath ==
  (prog = "fixed" /\ Done /\ obs.path = "dev") => simFile = obs.simAtStart
=============================================================================
